---- MODULE Spec2Model ----
(***************************************************************************)
(* CinemaOS ComfyUI nodes: the session credit accumulator                  *)
(* (comfyui_nodes/credit_tracker.py) and the Vault save node               *)
(* (comfyui_nodes/vault_save.py), with the other nodes of the package as   *)
(* far as they can touch the same state.                                   *)
(*                                                                         *)
(* Credits are Python floats in the source.  The provider nodes emit them  *)
(* as f"{credits:.4f}" and the tracker reports its total the same way, so  *)
(* the model keeps every amount as an integer number of 1/10000 credit.    *)
(* Text is a tuple of one-character strings, so that float() and the       *)
(* .4f formatting are modelled as the scans they are.                      *)
(***************************************************************************)
EXTENDS Integers, Sequences, FiniteSets, TLC

\* ------------------------------------------------------------------ bounds
NumTasks == 2
MaxCalls == 2

\* ------------------------------------------------------- program constants
FracDigits == 4
OK == 200
ReportTimeout == 5
UploadTimeout == 30

Tasks == 1..NumTasks

\* ------------------------------------------------------------------- text
Digits == {"0", "1", "2", "3", "4", "5", "6", "7", "8", "9"}

DigitVal(c) ==
  CASE c = "0" -> 0 [] c = "1" -> 1 [] c = "2" -> 2 [] c = "3" -> 3
    [] c = "4" -> 4 [] c = "5" -> 5 [] c = "6" -> 6 [] c = "7" -> 7
    [] c = "8" -> 8 [] c = "9" -> 9

DigitChar(d) ==
  CASE d = 0 -> "0" [] d = 1 -> "1" [] d = 2 -> "2" [] d = 3 -> "3"
    [] d = 4 -> "4" [] d = 5 -> "5" [] d = 6 -> "6" [] d = 7 -> "7"
    [] d = 8 -> "8" [] d = 9 -> "9"

RECURSIVE Pow10(_)
Pow10(n) == IF n = 0 THEN 1 ELSE 10 * Pow10(n - 1)

\* One credit, in the unit the amounts are kept in.
Scale == Pow10(FracDigits)

\* The value of a run of decimal digits, most significant first.
RECURSIVE DigitsVal(_)
DigitsVal(s) ==
  IF s = <<>> THEN 0
  ELSE DigitsVal(SubSeq(s, 1, Len(s) - 1)) * 10 + DigitVal(s[Len(s)])

\* The decimal digits of a natural number, at least `width` of them.
RECURSIVE DigitsOf(_, _)
DigitsOf(n, width) ==
  IF n < 10 /\ width <= 1 THEN <<DigitChar(n)>>
  ELSE Append(DigitsOf(n \div 10, width - 1), DigitChar(n % 10))

\* str.strip() as float() applies it: leading and trailing blanks go.
RECURSIVE Strip(_)
Strip(s) ==
  IF s = <<>> THEN s
  ELSE IF s[1] = " " THEN Strip(Tail(s))
  ELSE IF s[Len(s)] = " " THEN Strip(SubSeq(s, 1, Len(s) - 1))
  ELSE s

\* The Python value None, where a text was expected.
None == <<"None">>

Returned(v) == [raised |-> "none", value |-> v]
Raised(e) == [raised |-> e, value |-> <<>>]

\* float(x) on a decimal literal: optional sign, digits with at most one
\* point and at least one digit, blanks around it ignored.  Anything else
\* raises ValueError; None raises TypeError.  The value is in 1/10000.
FloatOf(x) ==
  IF x = None THEN Raised("TypeError")
  ELSE
    LET t == Strip(x)
        signed == t # <<>> /\ t[1] \in {"-", "+"}
        body == IF signed THEN Tail(t) ELSE t
        dots == {i \in 1..Len(body) : body[i] = "."}
        dot == IF dots = {} THEN Len(body) + 1 ELSE CHOOSE i \in dots : TRUE
        whole == SubSeq(body, 1, dot - 1)
        frac == SubSeq(body, dot + 1, Len(body))
        kept == SubSeq(frac, 1, IF Len(frac) < FracDigits THEN Len(frac) ELSE FracDigits)
        wellformed ==
          /\ Cardinality(dots) <= 1
          /\ \A i \in 1..Len(whole) : whole[i] \in Digits
          /\ \A i \in 1..Len(frac) : frac[i] \in Digits
          /\ Len(whole) + Len(frac) > 0
        magnitude == DigitsVal(whole) * Scale + DigitsVal(kept) * Pow10(FracDigits - Len(kept))
    IN IF ~wellformed THEN Raised("ValueError")
       ELSE Returned(IF signed /\ t[1] = "-" THEN 0 - magnitude ELSE magnitude)

\* f"{v:.4f}" of an amount kept in 1/10000.
Format4(v) ==
  LET m == IF v < 0 THEN 0 - v ELSE v
  IN (IF v < 0 THEN <<"-">> ELSE <<>>)
       \o DigitsOf(m \div Scale, 1) \o <<".">> \o DigitsOf(m % Scale, FracDigits)

\* ------------------------------------------------------------ environment
\* What a caller can hand to credits_used: the texts the provider nodes
\* emit, other decimal literals, malformed texts, the empty text, None.
\* (float() also reads exponents, underscores, "inf" and "nan"; none of
\* those is drawn.)
CreditInputs ==
  { <<"0", ".", "0", "4", "0", "0">>,
    <<"0", ".", "0", "0", "3", "0">>,
    <<"1", ".", "5">>,
    <<" ", "2", " ">>,
    <<"0">>,
    <<"-", "0", ".", "0", "2", "0", "0">>,
    <<"-", "1">>,
    <<"a", "b", "c">>,
    <<"1", ".", "2", ".", "3">>,
    <<>>,
    None }

\* The amounts concurrent tasks charge: what provider nodes emit, and a
\* malformed one.
TaskInputs ==
  { <<"0", ".", "0", "4", "0", "0">>, <<"0", ".", "0", "0", "3", "0">>,
    <<"1", ".", "5">>, <<"a", "b", "c">> }

ModelNames == {"flux-schnell"}
VaultUrls == {"http://localhost:8080"}
ProjectIds == {""}

\* HTTP status codes a server may answer with.
StatusCodes == {200, 201, 500}

\* What becomes of one requests.post: the server answers (with a status
\* and, for an upload, possibly an id in the body), the request times out,
\* or the connection is refused.
NoId == <<>>
ServerIds == {<<"srv-7">>}
Answer(code, id) == [kind |-> "response", code |-> code, id |-> id]
TimedOut == [kind |-> "timeout", code |-> 0, id |-> NoId]
Refused == [kind |-> "refused", code |-> 0, id |-> NoId]
ReportOutcomes == {Answer(c, NoId) : c \in StatusCodes} \cup {TimedOut, Refused}
UploadOutcomes ==
  {Answer(OK, id) : id \in ServerIds \cup {NoId}}
    \cup {Answer(c, NoId) : c \in StatusCodes \ {OK}}
    \cup {TimedOut, Refused}

\* A call that never comes back.
Hung == [raised |-> "(never returns)", value |-> <<>>]

\* requests.post / requests.get with timeout = {} (none given) or {n}:
\* the response, or the exception requests raises.  A peer that never
\* answers ends the call with Timeout when a timeout was given, and holds
\* it forever when none was.
Send(timeout, outcome) ==
  CASE outcome.kind = "response" -> Returned(outcome)
    [] outcome.kind = "timeout" -> IF timeout = {} THEN Hung ELSE Raised("Timeout")
    [] outcome.kind = "refused" -> Raised("ConnectionError")

\* The exceptions that are requests.RequestException.
RequestException == {"Timeout", "ConnectionError", "HTTPError"}

\* ------------------------------------------------------------------ state
VARIABLES
  session_credits,  \* CreditTrackerNode._session_credits, in 1/10000
  last,             \* the call that completed last: its arguments, the
                    \* outbound calls it made, and its result
  ncalls,           \* calls made so far
  disk,             \* files under ~/CinemaOS/outputs
  vault_assets,     \* files the remote Vault has stored
  pc,               \* per task: where it is inside track_credits
  credits,          \* per task: the local `credits`
  loaded,           \* per task: the total read by `+=`, not yet written back
  status,           \* per task: the local `status`
  ret               \* per task: the total it returned

vars == <<session_credits, last, ncalls, disk, vault_assets, pc, credits, loaded, status, ret>>
taskVars == <<pc, credits, loaded, status, ret>>
storeVars == <<disk, vault_assets>>

NoCall == [op |-> "none"]

Init ==
  /\ session_credits = 0
  /\ last = NoCall
  /\ ncalls = 0
  /\ disk = {}
  /\ vault_assets = {}
  /\ pc = [t \in Tasks |-> "idle"]
  /\ credits = [t \in Tasks |-> 0]
  /\ loaded = [t \in Tasks |-> 0]
  /\ status = [t \in Tasks |-> ""]
  /\ ret = [t \in Tasks |-> <<>>]

\* --------------------------------------------------------- credit tracker
\* ParseCredits with an except clause that names ValueError alone.
ParseCredits_ValueErrorOnly(credits_used) ==
  LET r == FloatOf(credits_used)
  IN IF r.raised \in {"ValueError"} THEN Returned(0) ELSE r

\* try: credits = float(credits_used)
\* except (ValueError, TypeError): credits = 0.0
ParseCredits(credits_used) ==
  LET r == FloatOf(credits_used)
  IN IF r.raised \in {"ValueError", "TypeError"} THEN Returned(0) ELSE r

\* ReportStatus with an except clause that names ConnectionError alone.
ReportStatus_ConnectionErrorOnly(outcome) ==
  LET r == Send({ReportTimeout}, outcome)
  IN IF r.raised = "none"
       THEN Returned(IF r.value.code = OK THEN "reported" ELSE "local_only")
     ELSE IF r.raised \in {"ConnectionError"} THEN Returned("offline")
     ELSE r

\* ReportStatus with response.ok (any status below 400) for the test.
ReportStatus_AnySuccess(outcome) ==
  LET r == Send({ReportTimeout}, outcome)
  IN IF r.raised = "none"
       THEN Returned(IF r.value.code < 400 THEN "reported" ELSE "local_only")
     ELSE IF r.raised \in RequestException THEN Returned("offline")
     ELSE r

\* The report to the Vault and the status it yields.
ReportStatus(outcome) ==
  LET r == Send({ReportTimeout}, outcome)
  IN IF r.raised = "none"
       THEN Returned(IF r.value.code = OK THEN "reported" ELSE "local_only")
     ELSE IF r.raised \in RequestException THEN Returned("offline")
     ELSE r

ReportRequest(vault_url, amount, model_name, project_id) ==
  [method |-> "POST", url |-> <<vault_url, "/api/credits/usage">>,
   timeout |-> {ReportTimeout},
   json |-> [credits |-> amount, model |-> model_name, project_id |-> project_id]]

\* One whole call of track_credits, nothing running beside it.
track_credits(credits_used, model_name, vault_url, project_id, outcome) ==
  LET parsed == ParseCredits(credits_used)
      total == session_credits + parsed.value
      report == ReportStatus(outcome)
      call == [op |-> "track_credits", credits_used |-> credits_used,
               outcome |-> outcome, before |-> session_credits]
  IN /\ ncalls < MaxCalls
     /\ ncalls' = ncalls + 1
     /\ IF parsed.raised # "none"
          THEN /\ session_credits' = session_credits
               /\ last' = call @@ [result |-> parsed, calls |-> <<>>]
          ELSE /\ session_credits' = total
               /\ last' = call @@
                    [result |-> IF report.raised # "none" THEN report
                                ELSE Returned(<<Format4(total), report.value>>),
                     calls |-> <<ReportRequest(vault_url, parsed.value, model_name, project_id)>>]
     /\ UNCHANGED <<storeVars, taskVars>>

reset_session_credits ==
  /\ ncalls < MaxCalls
  /\ ncalls' = ncalls + 1
  /\ session_credits' = 0
  /\ last' = [op |-> "reset_session_credits", before |-> session_credits,
              result |-> Returned(None), calls |-> <<>>]
  /\ UNCHANGED <<storeVars, taskVars>>

\* get_session_credits that clears the counter it reads.
get_session_credits_Clearing ==
  /\ ncalls < MaxCalls
  /\ ncalls' = ncalls + 1
  /\ session_credits' = 0
  /\ last' = [op |-> "get_session_credits", before |-> session_credits,
              result |-> Returned(session_credits), calls |-> <<>>]
  /\ UNCHANGED <<storeVars, taskVars>>

get_session_credits ==
  /\ ncalls < MaxCalls
  /\ ncalls' = ncalls + 1
  /\ last' = [op |-> "get_session_credits", before |-> session_credits,
              result |-> Returned(session_credits), calls |-> <<>>]
  /\ UNCHANGED <<session_credits, storeVars, taskVars>>

\* track_credits run by several tasks at once.  A task can be preempted
\* between any two of: parsing its argument, reading the total for `+=`,
\* writing it back, the report over the network, and formatting the
\* total it returns.
Enter(t, credits_used) ==
  /\ pc[t] = "idle"
  /\ ParseCredits(credits_used).raised = "none"
  /\ credits' = [credits EXCEPT ![t] = ParseCredits(credits_used).value]
  /\ pc' = [pc EXCEPT ![t] = "load"]
  /\ UNCHANGED <<session_credits, last, ncalls, storeVars, loaded, status, ret>>

Load(t) ==
  /\ pc[t] = "load"
  /\ loaded' = [loaded EXCEPT ![t] = session_credits]
  /\ pc' = [pc EXCEPT ![t] = "store"]
  /\ UNCHANGED <<session_credits, last, ncalls, storeVars, credits, status, ret>>

Store(t) ==
  /\ pc[t] = "store"
  /\ session_credits' = loaded[t] + credits[t]
  /\ pc' = [pc EXCEPT ![t] = "report"]
  /\ UNCHANGED <<last, ncalls, storeVars, credits, loaded, status, ret>>

Report(t, outcome) ==
  /\ pc[t] = "report"
  /\ ReportStatus(outcome).raised = "none"
  /\ status' = [status EXCEPT ![t] = ReportStatus(outcome).value]
  /\ pc' = [pc EXCEPT ![t] = "return"]
  /\ UNCHANGED <<session_credits, last, ncalls, storeVars, credits, loaded, ret>>

Return(t) ==
  /\ pc[t] = "return"
  /\ ret' = [ret EXCEPT ![t] = Format4(session_credits)]
  /\ pc' = [pc EXCEPT ![t] = "done"]
  /\ UNCHANGED <<session_credits, last, ncalls, storeVars, credits, loaded, status>>

\* ------------------------------------------------------------- vault save
SaveTypes == {"shot"}
SaveNames == {"", "Ana"}
AssetIds == {<<"1f0e9a3c">>}

\* f"{token_type}_{token_name}_{asset_id}.png" if token_name
\* else f"output_{asset_id}.png"
Filename(token_type, token_name, asset_id) ==
  IF token_name # ""
    THEN <<token_type, "_", token_name, "_">> \o asset_id \o <<".png">>
    ELSE <<"output_">> \o asset_id \o <<".png">>

\* LocalId without the prefix.
LocalId_Unprefixed(asset_id) == asset_id

LocalId(asset_id) == <<"local:">> \o asset_id

UploadRequest(vault_url, filename, token_type, token_name) ==
  [method |-> "POST", url |-> <<vault_url, "/api/assets/upload">>,
   timeout |-> {UploadTimeout},
   json |-> [filename |-> filename, token_type |-> token_type, token_name |-> token_name]]

\* The remote store keeps an upload exactly when it answers with success.
Stored(outcome) == outcome.kind = "response" /\ outcome.code \in 200..299

\* save_locally that computes the path and writes nothing.
save_locally_Dropped(files, filename) == files

\* os.makedirs(os.path.dirname(local_path), exist_ok=True)
\* pil_image.save(local_path)
save_locally(files, filename) == files \cup {filename}

\* One whole call of save_to_vault.  writable: whether creating the
\* fallback directory and writing the file there succeeds.
save_to_vault(token_type, token_name, vault_url, asset_id, outcome, writable) ==
  LET filename == Filename(token_type, token_name, asset_id)
      post == Send({UploadTimeout}, outcome)
      call == [op |-> "save_to_vault", outcome |-> outcome, before |-> session_credits,
               filename |-> filename, asset_id |-> asset_id, writable |-> writable,
               calls |-> <<UploadRequest(vault_url, filename, token_type, token_name)>>]
  IN /\ ncalls < MaxCalls
     /\ ncalls' = ncalls + 1
     /\ vault_assets' = IF Stored(outcome) THEN vault_assets \cup {filename} ELSE vault_assets
     /\ IF post.raised = "none"
          THEN /\ disk' = disk
               /\ last' = call @@
                    [result |-> Returned(
                       IF post.value.code = OK
                         THEN IF post.value.id # NoId THEN post.value.id ELSE asset_id
                         ELSE LocalId(asset_id))]
          ELSE IF post.raised \in RequestException
            THEN IF writable
                   THEN /\ disk' = save_locally(disk, filename)
                        /\ last' = call @@ [result |-> Returned(LocalId(asset_id))]
                   ELSE /\ disk' = disk
                        /\ last' = call @@ [result |-> Raised("OSError")]
            ELSE /\ disk' = disk
                 /\ last' = call @@ [result |-> post]
     /\ UNCHANGED <<session_credits, taskVars>>

\* ----------------------------------------------------------- fal provider
FalModels ==
  {"flux-2-pro", "flux-1.1-pro", "flux-schnell", "kling-v2.5-turbo", "seedream-4.5",
   "unknown-model-xyz"}
ApiKeys == {"", "fal-key"}
Prompts == {"a red coat"}
NegativePrompts == {""}
Seeds == {0 - 1}
StepCounts == {28}
GuidanceScales == {"7.5"}
NoImage == "no input image"
InputImages == {NoImage}

\* <<width, height>>, within the nodes' [256, 4096].
Dimensions == {<<256, 256>>, <<300, 300>>, <<1024, 1024>>, <<2048, 1024>>, <<4096, 4096>>}

\* Fal_endpoint whose default is another endpoint of the table.
Fal_endpoint_DefaultPro(model) ==
  CASE model = "flux-2-pro" -> "fal-ai/flux-2/pro"
    [] model = "flux-1.1-pro" -> "fal-ai/flux-pro/v1.1"
    [] model = "flux-schnell" -> "fal-ai/flux/schnell"
    [] model = "kling-v2.5-turbo" -> "fal-ai/kling-video/v2.5/turbo/image-to-video"
    [] model = "seedream-4.5" -> "fal-ai/seedream/v4.5"
    [] OTHER -> "fal-ai/flux-pro/v1.1"

\* model_endpoints.get(model, "fal-ai/flux/schnell")
Fal_endpoint(model) ==
  CASE model = "flux-2-pro" -> "fal-ai/flux-2/pro"
    [] model = "flux-1.1-pro" -> "fal-ai/flux-pro/v1.1"
    [] model = "flux-schnell" -> "fal-ai/flux/schnell"
    [] model = "kling-v2.5-turbo" -> "fal-ai/kling-video/v2.5/turbo/image-to-video"
    [] model = "seedream-4.5" -> "fal-ai/seedream/v4.5"
    [] OTHER -> "fal-ai/flux/schnell"

\* base_costs.get(model, 0.01), in 1/10000.
Fal_base_cost(model) ==
  CASE model = "flux-2-pro" -> 500
    [] model = "flux-1.1-pro" -> 400
    [] model = "flux-schnell" -> 30
    [] model = "kling-v2.5-turbo" -> 800
    [] model = "seedream-4.5" -> 200
    [] OTHER -> 100

RECURSIVE GCD(_, _)
GCD(a, b) == IF b = 0 THEN a ELSE GCD(b, a % b)

\* Fal_estimate_credits with the scale upside down.
Fal_estimate_credits_Inverse(model, width, height) ==
  LET g == GCD(width * height, 1024 * 1024)
  IN [num |-> Fal_base_cost(model) * ((1024 * 1024) \div g), den |-> (width * height) \div g]

\* base * (width * height / (1024 * 1024)), as a ratio of 1/10000 credit
\* in lowest terms of the scale.
Fal_estimate_credits(model, width, height) ==
  LET g == GCD(width * height, 1024 * 1024)
  IN [num |-> Fal_base_cost(model) * ((width * height) \div g), den |-> (1024 * 1024) \div g]

\* f"{credits:.4f}" of a ratio: to the nearest 1/10000, a tie to the even
\* one.  (On a tie the float's binary error decides in the source; none of
\* the dimensions generate is called with gives one.)
FormatRatio(q) ==
  LET floor == q.num \div q.den
      twice == 2 * (q.num % q.den)
      units == IF twice > q.den \/ (twice = q.den /\ floor % 2 = 1) THEN floor + 1 ELSE floor
  IN Format4(units)

\* What the Fal endpoint answers with, and what fetching the image gives.
ImageUrl == "https://fal.media/files/out.png"
Bodies == {"image with url", "image without url", "empty images", "no images"}
Fetch(kind, content) == [kind |-> kind, code |-> 0, content |-> content]
Downloads ==
  {Fetch("response", "image"), Fetch("response", "not an image"),
   Fetch("refused", ""), Fetch("timeout", "")}
Scenario(post, body, download) == [post |-> post, body |-> body, download |-> download]
FalScenarios ==
  {Scenario(o, "no images", Fetch("refused", "")) :
       o \in {Refused, TimedOut, Answer(404, NoId), Answer(500, NoId)}}
    \cup {Scenario(Answer(OK, NoId), b, Fetch("refused", "")) :
            b \in Bodies \ {"image with url"}}
    \cup {Scenario(Answer(OK, NoId), "image with url", d) : d \in Downloads}
    \cup {Scenario(Answer(201, NoId), "image with url", Fetch("response", "image"))}

\* response.raise_for_status()
RaiseForStatus(response) ==
  IF response.code \in 400..599 THEN Raised("HTTPError") ELSE Returned(response)

\* Image.open(BytesIO(img_response.content))
ImageOpen(content) ==
  IF content = "image" THEN Returned([image |-> content])
  ELSE Raised("UnidentifiedImageError")

Fal_payload(prompt, width, height, negative_prompt, seed, num_steps, guidance_scale, input_image) ==
  [prompt |-> prompt, image_size |-> [width |-> width, height |-> height],
   num_inference_steps |-> num_steps, guidance_scale |-> guidance_scale]
    @@ (IF negative_prompt # "" THEN [negative_prompt |-> negative_prompt] ELSE <<>>)
    @@ (IF seed >= 0 THEN [seed |-> seed] ELSE <<>>)
    @@ (IF input_image # NoImage THEN [image_url |-> <<"data:image/png;base64,", input_image>>]
        ELSE <<>>)

\* FalProviderNode.generate past the key check: the outbound calls made
\* and the result.
Fal_request(api_key, model, width, height, payload, scenario) ==
  LET post == [method |-> "POST", url |-> <<"https://fal.run", "/", Fal_endpoint(model)>>,
               timeout |-> {}, json |-> payload,
               headers |-> [Authorization |-> <<"Key ", api_key>>]]
      get == [method |-> "GET", url |-> <<ImageUrl>>, timeout |-> {}]
      response == Send({}, scenario.post)
      checked == IF response.raised = "none" THEN RaiseForStatus(response.value) ELSE response
      img_response == Send({}, scenario.download)
      img == IF img_response.raised = "none" THEN ImageOpen(img_response.value.content)
             ELSE img_response
  IN IF checked.raised # "none" THEN [calls |-> <<post>>, result |-> checked]
     ELSE IF scenario.body # "image with url"
       THEN [calls |-> <<post>>, result |-> Raised("ValueError")]
     ELSE IF img.raised # "none" THEN [calls |-> <<post, get>>, result |-> img]
     ELSE [calls |-> <<post, get>>,
           result |-> Returned(<<img.value,
                                 FormatRatio(Fal_estimate_credits(model, width, height))>>)]

\* Fal_generate without the check of the key.
Fal_generate_KeyUnchecked(api_key, prompt, model, width, height, negative_prompt, seed, num_steps, guidance_scale, input_image, scenario) ==
  LET payload == Fal_payload(prompt, width, height, negative_prompt, seed, num_steps,
                             guidance_scale, input_image)
      done == Fal_request(api_key, model, width, height, payload, scenario)
  IN /\ ncalls < MaxCalls
     /\ ncalls' = ncalls + 1
     /\ last' = [op |-> "FalProviderNode.generate", api_key |-> api_key, model |-> model,
                 width |-> width, height |-> height, scenario |-> scenario] @@ done
     /\ UNCHANGED <<session_credits, storeVars, taskVars>>

Fal_generate(api_key, prompt, model, width, height, negative_prompt, seed, num_steps, guidance_scale, input_image, scenario) ==
  LET payload == Fal_payload(prompt, width, height, negative_prompt, seed, num_steps,
                             guidance_scale, input_image)
      done == IF api_key = "" THEN [calls |-> <<>>, result |-> Raised("ValueError")]
              ELSE Fal_request(api_key, model, width, height, payload, scenario)
  IN /\ ncalls < MaxCalls
     /\ ncalls' = ncalls + 1
     /\ last' = [op |-> "FalProviderNode.generate", api_key |-> api_key, model |-> model,
                 width |-> width, height |-> height, scenario |-> scenario] @@ done
     /\ UNCHANGED <<session_credits, storeVars, taskVars>>

Fal_estimate(model, width, height) ==
  /\ ncalls < MaxCalls
  /\ ncalls' = ncalls + 1
  /\ last' = [op |-> "FalProviderNode._estimate_credits", model |-> model,
              width |-> width, height |-> height, calls |-> <<>>,
              result |-> Returned(Fal_estimate_credits(model, width, height))]
  /\ UNCHANGED <<session_credits, storeVars, taskVars>>

\* ---------------------------------------- fal provider (cinemaos_cloud.py)
\* The adapter of src-tauri/comfyui_nodes/cinemaos_cloud.py, which goes
\* through the fal_client package instead of requests.
CloudModels == {"flux-pro", "flux-schnell", "kling-v1", "unknown-model-xyz"}
CloudDimensions == {<<1024, 1024>>}

\* endpoint = "fal-ai/flux-pro/v1.1-ultra"; "flux-schnell" in model and
\* "kling" in model pick another.  The substring tests, on CloudModels.
Cloud_endpoint(model) ==
  CASE model = "flux-schnell" -> "fal-ai/flux/schnell"
    [] model = "kling-v1" -> "fal-ai/kling-video/v1/standard/text-to-video"
    [] OTHER -> "fal-ai/flux-pro/v1.1-ultra"

\* torch.zeros((1, height, width, 3)), returned with an empty url.
Blank(width, height) == <<[image |-> "blank", width |-> width, height |-> height], <<>>>>

\* What fal_client.submit(...).get() comes to: an exception, or a result
\* with an images list, with a video, or with neither.
Submissions == {"error", "images", "video", "neither"}
CloudScenario(submit, download) == [submit |-> submit, download |-> download]
CloudScenarios ==
  {CloudScenario(sb, Fetch("refused", "")) : sb \in {"error", "neither"}}
    \cup {CloudScenario(sb, d) : sb \in {"images", "video"}, d \in Downloads}

\* FalProvider.generate past the fal_client check.
Cloud_request(model, width, height, arguments, scenario) ==
  LET submit == [method |-> "fal_client.submit", endpoint |-> Cloud_endpoint(model),
                 arguments |-> arguments]
      get == [method |-> "GET", url |-> <<ImageUrl>>, timeout |-> {}]
      response == Send({}, scenario.download)
      img == IF response.raised = "none" THEN ImageOpen(response.value.content) ELSE response
  IN IF scenario.submit = "error"
       THEN [calls |-> <<submit>>, result |-> Returned(Blank(width, height))]
     ELSE IF scenario.submit = "neither"
       THEN [calls |-> <<submit>>, result |-> Returned(Blank(width, height))]
     ELSE IF img = Hung THEN [calls |-> <<submit, get>>, result |-> Hung]
     ELSE IF img.raised # "none"
       THEN [calls |-> <<submit, get>>, result |-> Returned(Blank(width, height))]
     ELSE [calls |-> <<submit, get>>, result |-> Returned(<<img.value, <<ImageUrl>>>>)]

FalProvider_generate(has_fal_client, prompt, model, width, height, seed, num_steps, guidance_scale, scenario) ==
  LET arguments ==
        [prompt |-> prompt, image_size |-> [width |-> width, height |-> height],
         num_inference_steps |-> num_steps, guidance_scale |-> guidance_scale,
         seed |-> IF seed # 0 - 1 THEN {seed} ELSE {}, enable_safety_checker |-> FALSE]
      done == IF ~has_fal_client
                THEN [calls |-> <<>>, result |-> Returned(Blank(width, height))]
              ELSE Cloud_request(model, width, height, arguments, scenario)
  IN /\ ncalls < MaxCalls
     /\ ncalls' = ncalls + 1
     /\ last' = [op |-> "FalProvider.generate", has_fal_client |-> has_fal_client,
                 model |-> model, width |-> width, height |-> height,
                 scenario |-> scenario] @@ done
     /\ UNCHANGED <<session_credits, storeVars, taskVars>>

\* -------------------------------------------------------- vertex provider
Chars_imagen == <<"i", "m", "a", "g", "e", "n">>
Chars_veo == <<"v", "e", "o">>
Imagen4 == Chars_imagen \o <<"-", "4">>
Imagen4Fast == Chars_imagen \o <<"-", "4", "-", "f", "a", "s", "t">>
Veo31 == Chars_veo \o <<"-", "3", ".", "1">>
UnknownModel == <<"u", "n", "k", "n", "o", "w", "n", "-", "m", "o", "d", "e", "l", "-", "x", "y", "z">>
VertexModels == {Imagen4, Imagen4Fast, Veo31, UnknownModel}
GoogleProjects == {"", "my-project"}
Locations == {"us-central1"}
ImageCounts == {1}

\* str.startswith
StartsWith(s, prefix) ==
  Len(s) >= Len(prefix) /\ SubSeq(s, 1, Len(prefix)) = prefix

\* Vertex_estimate_credits scaled by resolution, as the Fal node scales.
Vertex_estimate_credits_Scaled(model, width, height) ==
  ((CASE model = Imagen4 -> 400
      [] model = Imagen4Fast -> 200
      [] model = Veo31 -> 5000
      [] OTHER -> 200) * (width * height)) \div (1024 * 1024)

\* costs.get(model, 0.02), in 1/10000; the resolution plays no part.
Vertex_estimate_credits(model, width, height) ==
  CASE model = Imagen4 -> 400
    [] model = Imagen4Fast -> 200
    [] model = Veo31 -> 5000
    [] OTHER -> 200

\* width / height against 1.6, 0.6, 1.2, 0.8.
Vertex_get_aspect_ratio(width, height) ==
  IF 10 * width > 16 * height THEN "16:9"
  ELSE IF 10 * width < 6 * height THEN "9:16"
  ELSE IF 10 * width > 12 * height THEN "4:3"
  ELSE IF 10 * width < 8 * height THEN "3:4"
  ELSE "1:1"

\* What the Vertex SDK does with an Imagen request.
VertexScenarios == {"images", "no images", "model not found", "api error"}

Vertex_generate_imagen(prompt, model, width, height, negative_prompt, seed, num_images, input_image, scenario) ==
  LET parameters ==
        [number_of_images |-> num_images,
         aspect_ratio |-> Vertex_get_aspect_ratio(width, height)]
          @@ (IF negative_prompt # "" THEN [negative_prompt |-> negative_prompt] ELSE <<>>)
          @@ (IF seed >= 0 THEN [seed |-> seed] ELSE <<>>)
      load == [method |-> "ImageGenerationModel.from_pretrained", model |-> model]
      run == [method |-> IF input_image # NoImage THEN "edit_image" ELSE "generate_images",
              prompt |-> prompt, parameters |-> parameters]
  IN IF scenario = "model not found"
       THEN [calls |-> <<load>>, result |-> Raised("NotFound")]
     ELSE IF scenario = "api error"
       THEN [calls |-> <<load, run>>, result |-> Raised("GoogleAPIError")]
     ELSE IF scenario = "no images"
       THEN [calls |-> <<load, run>>, result |-> Raised("ValueError")]
     ELSE [calls |-> <<load, run>>,
           result |-> Returned(<<[image |-> "image"],
                                 Format4(Vertex_estimate_credits(model, width, height))>>)]

Vertex_generate(has_google_cloud, project_id, location, prompt, model, width, height, negative_prompt, seed, num_images, input_image, scenario) ==
  LET init == [method |-> "aiplatform.init", project |-> project_id, location |-> location]
      inner == Vertex_generate_imagen(prompt, model, width, height, negative_prompt, seed,
                                      num_images, input_image, scenario)
      done ==
        IF ~has_google_cloud THEN [calls |-> <<>>, result |-> Raised("ImportError")]
        ELSE IF project_id = "" THEN [calls |-> <<>>, result |-> Raised("ValueError")]
        ELSE IF StartsWith(model, Chars_imagen)
          THEN [calls |-> <<init>> \o inner.calls, result |-> inner.result]
        ELSE IF StartsWith(model, Chars_veo)
          THEN [calls |-> <<init>>, result |-> Raised("NotImplementedError")]
        ELSE [calls |-> <<init>>, result |-> Raised("ValueError")]
  IN /\ ncalls < MaxCalls
     /\ ncalls' = ncalls + 1
     /\ last' = [op |-> "VertexProviderNode.generate", has_google_cloud |-> has_google_cloud,
                 project_id |-> project_id, model |-> model, width |-> width,
                 height |-> height, scenario |-> scenario] @@ done
     /\ UNCHANGED <<session_credits, storeVars, taskVars>>

Vertex_estimate(model, width, height) ==
  /\ ncalls < MaxCalls
  /\ ncalls' = ncalls + 1
  /\ last' = [op |-> "VertexProviderNode._estimate_credits", model |-> model,
              width |-> width, height |-> height, calls |-> <<>>,
              result |-> Returned(Vertex_estimate_credits(model, width, height))]
  /\ UNCHANGED <<session_credits, storeVars, taskVars>>

\* ---------------------------------------------------------- vault context
\* JSON values of a token record.
JStr(x) == [type |-> "str", s |-> x, n |-> 0, items |-> <<>>]
JInt(x) == [type |-> "int", s |-> "", n |-> x, items |-> <<>>]
JList(x) == [type |-> "list", s |-> "", n |-> 0, items |-> x]

\* dict.get(key, default)
Get(d, key, default) == IF key \in DOMAIN d THEN d[key] ELSE default

\* Python truth of a value: "", 0 and [] are false.
Truthy(v) ==
  CASE v.type = "str" -> v.s # ""
    [] v.type = "int" -> v.n # 0
    [] v.type = "list" -> v.items # <<>>

\* A part of the description: a text, and whether str.join accepts it.
\* f"...{v}..." makes a text of any value; a value appended as it is stays
\* what it was, and join takes only texts.
Shown(v) ==
  CASE v.type = "str" -> (IF v.s = "" THEN <<>> ELSE <<v.s>>)
    [] v.type = "int" -> (IF v.n < 0 THEN <<"-">> ELSE <<>>)
                           \o DigitsOf(IF v.n < 0 THEN 0 - v.n ELSE v.n, 1)
    [] v.type = "list" -> <<"[...]">>
Formatted(text) == [text |-> text, joins |-> TRUE]
AsIs(v) == [text |-> Shown(v), joins |-> v.type = "str"]

\* ", ".join(parts)
RECURSIVE JoinTexts(_)
JoinTexts(parts) ==
  IF Len(parts) = 1 THEN parts[1].text
  ELSE JoinTexts(SubSeq(parts, 1, Len(parts) - 1)) \o <<", ">> \o parts[Len(parts)].text
Join(parts) ==
  IF \E i \in 1..Len(parts) : ~parts[i].joins THEN Raised("TypeError")
  ELSE Returned(JoinTexts(parts))

\* parts.append(x) if the condition holds
AppendIf(parts, cond, part) == IF cond THEN Append(parts, part) ELSE parts

\* build_prompt_context with the clothing put before the appearance.
build_prompt_context_ClothingFirst(token_type, token_data) ==
  LET name == Get(token_data, "name", JStr(""))
      description == Get(token_data, "description", JStr(""))
      age == Get(token_data, "age", JStr(""))
      appearance == Get(token_data, "appearance", JStr(""))
      clothing == Get(token_data, "clothing", JStr(""))
      setting == Get(token_data, "setting", JStr(""))
      time_of_day == Get(token_data, "time_of_day", JStr(""))
      weather == Get(token_data, "weather", JStr(""))
      material == Get(token_data, "material", JStr(""))
      color == Get(token_data, "color", JStr(""))
      c1 == <<Formatted(Shown(name))>>
      c2 == AppendIf(c1, Truthy(age), Formatted(Shown(age) \o <<" years old">>))
      c3 == AppendIf(c2, Truthy(clothing), Formatted(<<"wearing ">> \o Shown(clothing)))
      c4 == AppendIf(c3, Truthy(appearance), AsIs(appearance))
      c5 == AppendIf(c4, Truthy(description), AsIs(description))
      l1 == <<AsIs(name)>>
      l2 == AppendIf(l1, Truthy(setting), AsIs(setting))
      l3 == AppendIf(l2, Truthy(time_of_day), Formatted(<<"during ">> \o Shown(time_of_day)))
      l4 == AppendIf(l3, Truthy(weather), Formatted(Shown(weather) \o <<" weather">>))
      l5 == AppendIf(l4, Truthy(description), AsIs(description))
      p1 == <<AsIs(name)>>
      p2 == AppendIf(p1, Truthy(color), AsIs(color))
      p3 == AppendIf(p2, Truthy(material), Formatted(<<"made of ">> \o Shown(material)))
      p4 == AppendIf(p3, Truthy(description), AsIs(description))
  IN CASE token_type = "character" -> Join(c5)
       [] token_type = "location" -> Join(l5)
       [] token_type = "prop" -> Join(p4)
       [] OTHER -> IF Truthy(description)
                     THEN Returned(Shown(name) \o <<", ">> \o Shown(description))
                     ELSE Returned(Shown(name))

build_prompt_context(token_type, token_data) ==
  LET name == Get(token_data, "name", JStr(""))
      description == Get(token_data, "description", JStr(""))
      age == Get(token_data, "age", JStr(""))
      appearance == Get(token_data, "appearance", JStr(""))
      clothing == Get(token_data, "clothing", JStr(""))
      setting == Get(token_data, "setting", JStr(""))
      time_of_day == Get(token_data, "time_of_day", JStr(""))
      weather == Get(token_data, "weather", JStr(""))
      material == Get(token_data, "material", JStr(""))
      color == Get(token_data, "color", JStr(""))
      c1 == <<Formatted(Shown(name))>>
      c2 == AppendIf(c1, Truthy(age), Formatted(Shown(age) \o <<" years old">>))
      c3 == AppendIf(c2, Truthy(appearance), AsIs(appearance))
      c4 == AppendIf(c3, Truthy(clothing), Formatted(<<"wearing ">> \o Shown(clothing)))
      c5 == AppendIf(c4, Truthy(description), AsIs(description))
      l1 == <<AsIs(name)>>
      l2 == AppendIf(l1, Truthy(setting), AsIs(setting))
      l3 == AppendIf(l2, Truthy(time_of_day), Formatted(<<"during ">> \o Shown(time_of_day)))
      l4 == AppendIf(l3, Truthy(weather), Formatted(Shown(weather) \o <<" weather">>))
      l5 == AppendIf(l4, Truthy(description), AsIs(description))
      p1 == <<AsIs(name)>>
      p2 == AppendIf(p1, Truthy(color), AsIs(color))
      p3 == AppendIf(p2, Truthy(material), Formatted(<<"made of ">> \o Shown(material)))
      p4 == AppendIf(p3, Truthy(description), AsIs(description))
  IN CASE token_type = "character" -> Join(c5)
       [] token_type = "location" -> Join(l5)
       [] token_type = "prop" -> Join(p4)
       [] OTHER -> IF Truthy(description)
                     THEN Returned(Shown(name) \o <<", ">> \o Shown(description))
                     ELSE Returned(Shown(name))

ContextTypes == {"character", "location", "prop", "shot"}
ContextNames == {"", "Ana"}

\* Token records the Vault may hold.
Tokens ==
  { [name |-> JStr("Ana"), age |-> JInt(30), appearance |-> JStr("tall"),
     clothing |-> JStr("red coat"), style_prompt |-> JStr("film noir"),
     visuals |-> JList(<<[path |-> JStr("/vault/ana.png")], [path |-> JStr("/vault/ana2.png")]>>)],
    [name |-> JStr("Harbor"), setting |-> JStr("docks"), time_of_day |-> JStr("dusk"),
     weather |-> JStr("foggy"), description |-> JStr("abandoned")],
    [name |-> JStr("Lamp"), color |-> JStr("brass"), material |-> JStr("iron"),
     age |-> JStr(""), visuals |-> JList(<<[label |-> JStr("front")]>>)],
    [name |-> JStr("Ana"), description |-> JStr("a detective"), visuals |-> JList(<<>>)] }

\* What becomes of the GET: the Vault answers 200 with a token record, or
\* with another status, or cannot be reached.
Found(token) == [kind |-> "response", code |-> OK, token |-> token]
NoToken == [name |-> JStr("")]
Missing(code) == [kind |-> "response", code |-> code, token |-> NoToken]
FetchOutcomes ==
  {Found(t) : t \in Tokens}
    \cup {Missing(404), Missing(500)}
    \cup {[kind |-> "timeout", code |-> 0, token |-> NoToken],
          [kind |-> "refused", code |-> 0, token |-> NoToken]}

FetchTimeout == 5
Empty3 == <<<<>>, <<>>, <<>>>>

\* load_context_fetch with an except clause that names ConnectionError
\* alone: a timeout escapes the call.
load_context_fetch_ConnectionErrorOnly(token_type, token_name, vault_url, include_visuals, outcome) ==
  LET get == [method |-> "GET",
              url |-> <<vault_url, "/api/tokens/", token_type, "/", token_name>>,
              timeout |-> {FetchTimeout}]
      response == Send({FetchTimeout}, outcome)
      token_data == outcome.token
      prompt_context == build_prompt_context(token_type, token_data)
      style_prompt == Shown(Get(token_data, "style_prompt", JStr("")))
      visuals == Get(token_data, "visuals", JList(<<>>))
      reference_path ==
        IF include_visuals /\ Truthy(visuals)
          THEN Shown(Get(visuals.items[1], "path", JStr("")))
          ELSE <<>>
  IN [calls |-> <<get>>,
      result |->
        IF response.raised \in {"ConnectionError"} THEN Returned(Empty3)
        ELSE IF response.raised # "none" THEN response
        ELSE IF response.value.code # OK THEN Returned(Empty3)
        ELSE IF prompt_context.raised # "none" THEN prompt_context
        ELSE Returned(<<prompt_context.value, style_prompt, reference_path>>)]

\* load_context_fetch that takes the last visual reference, not the first.
load_context_fetch_LastVisual(token_type, token_name, vault_url, include_visuals, outcome) ==
  LET get == [method |-> "GET",
              url |-> <<vault_url, "/api/tokens/", token_type, "/", token_name>>,
              timeout |-> {FetchTimeout}]
      response == Send({FetchTimeout}, outcome)
      token_data == outcome.token
      prompt_context == build_prompt_context(token_type, token_data)
      style_prompt == Shown(Get(token_data, "style_prompt", JStr("")))
      visuals == Get(token_data, "visuals", JList(<<>>))
      reference_path ==
        IF include_visuals /\ Truthy(visuals)
          THEN Shown(Get(visuals.items[Len(visuals.items)], "path", JStr("")))
          ELSE <<>>
  IN [calls |-> <<get>>,
      result |->
        IF response.raised \in RequestException THEN Returned(Empty3)
        ELSE IF response.raised # "none" THEN response
        ELSE IF response.value.code # OK THEN Returned(Empty3)
        ELSE IF prompt_context.raised # "none" THEN prompt_context
        ELSE Returned(<<prompt_context.value, style_prompt, reference_path>>)]

\* VaultContextNode.load_context past the name check.
load_context_fetch(token_type, token_name, vault_url, include_visuals, outcome) ==
  LET get == [method |-> "GET",
              url |-> <<vault_url, "/api/tokens/", token_type, "/", token_name>>,
              timeout |-> {FetchTimeout}]
      response == Send({FetchTimeout}, outcome)
      token_data == outcome.token
      prompt_context == build_prompt_context(token_type, token_data)
      style_prompt == Shown(Get(token_data, "style_prompt", JStr("")))
      visuals == Get(token_data, "visuals", JList(<<>>))
      reference_path ==
        IF include_visuals /\ Truthy(visuals)
          THEN Shown(Get(visuals.items[1], "path", JStr("")))
          ELSE <<>>
  IN [calls |-> <<get>>,
      result |->
        IF response.raised \in RequestException THEN Returned(Empty3)
        ELSE IF response.raised # "none" THEN response
        ELSE IF response.value.code # OK THEN Returned(Empty3)
        ELSE IF prompt_context.raised # "none" THEN prompt_context
        ELSE Returned(<<prompt_context.value, style_prompt, reference_path>>)]

\* load_context without the check of the name.
load_context_NameUnchecked(token_type, token_name, vault_url, include_visuals, outcome) ==
  LET done == load_context_fetch(token_type, token_name, vault_url, include_visuals, outcome)
  IN /\ ncalls < MaxCalls
     /\ ncalls' = ncalls + 1
     /\ last' = [op |-> "load_context", token_type |-> token_type, token_name |-> token_name,
                 include_visuals |-> include_visuals, outcome |-> outcome] @@ done
     /\ UNCHANGED <<session_credits, storeVars, taskVars>>

load_context(token_type, token_name, vault_url, include_visuals, outcome) ==
  LET done == IF token_name = "" THEN [calls |-> <<>>, result |-> Returned(Empty3)]
              ELSE load_context_fetch(token_type, token_name, vault_url, include_visuals, outcome)
  IN /\ ncalls < MaxCalls
     /\ ncalls' = ncalls + 1
     /\ last' = [op |-> "load_context", token_type |-> token_type, token_name |-> token_name,
                 include_visuals |-> include_visuals, outcome |-> outcome] @@ done
     /\ UNCHANGED <<session_credits, storeVars, taskVars>>

\* ---------------------------------------------------------- specifications
\* The environment's part of a call matters only on the paths that reach
\* it: a call that fails before its first outbound request is drawn with
\* one outcome, not with each.
FalScenariosFor(api_key) ==
  IF api_key = "" THEN {Scenario(Refused, "no images", Fetch("refused", ""))}
  ELSE FalScenarios
VertexScenariosFor(has_google_cloud, project_id, model) ==
  IF has_google_cloud /\ project_id # "" /\ StartsWith(model, Chars_imagen)
    THEN VertexScenarios
    ELSE {"api error"}
GoogleProjectsFor(has_google_cloud) ==
  IF has_google_cloud THEN GoogleProjects ELSE {""}
FetchOutcomesFor(token_name) ==
  IF token_name = "" THEN {Missing(404)} ELSE FetchOutcomes
GenerateDimensions == {<<1024, 1024>>, <<300, 300>>}
CloudScenariosFor(has_fal_client) ==
  IF has_fal_client THEN CloudScenarios ELSE {CloudScenario("error", Fetch("refused", ""))}

Next ==
  \/ \E c \in CreditInputs, m \in ModelNames, u \in VaultUrls, p \in ProjectIds,
        o \in ReportOutcomes : track_credits(c, m, u, p, o)
  \/ reset_session_credits
  \/ get_session_credits
  \/ \E ty \in SaveTypes, n \in SaveNames, u \in VaultUrls, a \in AssetIds,
        o \in UploadOutcomes, w \in BOOLEAN : save_to_vault(ty, n, u, a, o, w)
  \/ \E k \in ApiKeys, p \in Prompts, m \in FalModels, d \in GenerateDimensions,
        np \in NegativePrompts, sd \in Seeds, st \in StepCounts, g \in GuidanceScales,
        im \in InputImages :
          \E sc \in FalScenariosFor(k) :
            Fal_generate(k, p, m, d[1], d[2], np, sd, st, g, im, sc)
  \/ \E m \in FalModels, d \in Dimensions : Fal_estimate(m, d[1], d[2])
  \/ \E sdk \in BOOLEAN, p \in Prompts, m \in CloudModels, d \in CloudDimensions,
        sd \in Seeds, st \in StepCounts, g \in GuidanceScales :
          \E sc \in CloudScenariosFor(sdk) :
            FalProvider_generate(sdk, p, m, d[1], d[2], sd, st, g, sc)
  \/ \E sdk \in BOOLEAN, l \in Locations, p \in Prompts,
        m \in VertexModels, d \in GenerateDimensions, np \in NegativePrompts, sd \in Seeds,
        n \in ImageCounts, im \in InputImages :
          \E pr \in GoogleProjectsFor(sdk) :
            \E sc \in VertexScenariosFor(sdk, pr, m) :
              Vertex_generate(sdk, pr, l, p, m, d[1], d[2], np, sd, n, im, sc)
  \/ \E m \in VertexModels, d \in Dimensions : Vertex_estimate(m, d[1], d[2])
  \/ \E ty \in ContextTypes, n \in ContextNames, u \in VaultUrls, v \in BOOLEAN :
        \E o \in FetchOutcomesFor(n) : load_context(ty, n, u, v, o)

Spec == Init /\ [][Next]_vars

NextTasks ==
  \/ \E t \in Tasks, c \in TaskInputs : Enter(t, c)
  \/ \E t \in Tasks : Load(t)
  \/ \E t \in Tasks : Store(t)
  \/ \E t \in Tasks, o \in ReportOutcomes : Report(t, o)
  \/ \E t \in Tasks : Return(t)

SpecTasks == Init /\ [][NextTasks]_vars

\* ================================================================ claims
\* What each text of CreditInputs says, read by hand as a decimal number
\* of credits (in 1/10000), and whether it is a number at all.
Number(v) == [numeric |-> TRUE, value |-> v]
NotNumeric == [numeric |-> FALSE, value |-> 0]
Denotes(x) ==
  CASE x = <<"0", ".", "0", "4", "0", "0">> -> Number(400)
    [] x = <<"0", ".", "0", "0", "3", "0">> -> Number(30)
    [] x = <<"1", ".", "5">> -> Number(15000)
    [] x = <<" ", "2", " ">> -> Number(20000)
    [] x = <<"0">> -> Number(0)
    [] x = <<"-", "0", ".", "0", "2", "0", "0">> -> Number(0 - 200)
    [] x = <<"-", "1">> -> Number(0 - 10000)
    [] OTHER -> NotNumeric

Charged == last.op = "track_credits"
Saved == last.op = "save_to_vault"
ReturnedNormally == last.result.raised = "none"
Unreachable(outcome) == outcome.kind \in {"timeout", "refused"}

\* C1: a charge whose credits_used is a non-negative number leaves the
\* session total at the total before the call plus that number; a charge
\* whose credits_used is no number, or is missing, leaves the total as it
\* was and returns without raising.
C1_ChargeAddsParsedValue ==
  Charged =>
    LET d == Denotes(last.credits_used)
    IN /\ (d.numeric /\ d.value >= 0) => session_credits = last.before + d.value
       /\ ~d.numeric => (session_credits = last.before /\ ReturnedNormally)

\* A non-numeric charge made on a session that already holds credits.
C1_Witness ==
  /\ Charged
  /\ ~Denotes(last.credits_used).numeric
  /\ last.before > 0
  /\ session_credits = last.before

\* C2: when every one of the N tasks has finished a charge of the same
\* amount c on a session that started at 0, the session total is N*c.
C2_NoLostUpdate ==
  ((\A t \in Tasks : pc[t] = "done") /\ (\A t \in Tasks : credits[t] = credits[1]))
    => session_credits = NumTasks * credits[1]

\* C3: the total a charge returns is the total it read before its own
\* accumulation plus its own parsed credits: no other charge accumulates
\* between a charge's accumulation and its return.
C3_ReturnedTotalIsOwn ==
  \A t \in Tasks : pc[t] = "done" => ret[t] = Format4(loaded[t] + credits[t])

\* C4: whatever the accounting endpoint does (any status, a timeout, a
\* refused connection), a charge returns normally with one of the three
\* statuses, and the session total holds the amount of the charge.
C4_ChargeSurvivesReportFailure ==
  Charged =>
    LET d == Denotes(last.credits_used)
    IN /\ ReturnedNormally
       /\ last.result.value[2] \in {"reported", "local_only", "offline"}
       /\ session_credits = last.before + (IF d.numeric THEN d.value ELSE 0)

\* A charge of a positive amount whose report timed out.
C4_Witness ==
  /\ Charged
  /\ last.outcome.kind = "timeout"
  /\ Denotes(last.credits_used).value > 0
  /\ session_credits > last.before
  /\ ReturnedNormally

\* C5 as stated: reported exactly for a 2xx answer, local_only exactly for
\* an answer that is not 2xx, offline exactly for an unreachable endpoint.
C5_StatusBy2xx ==
  (Charged /\ ReturnedNormally) =>
    LET st == last.result.value[2]
        o == last.outcome
    IN /\ st \in {"reported", "local_only", "offline"}
       /\ st = "reported" <=> (o.kind = "response" /\ o.code \in 200..299)
       /\ st = "local_only" <=> (o.kind = "response" /\ o.code \notin 200..299)
       /\ st = "offline" <=> Unreachable(o)

\* C5 amended: reported exactly for a 200 answer, local_only exactly for
\* any other answer (other 2xx codes included), offline exactly for an
\* unreachable endpoint.
C5_StatusBy200 ==
  (Charged /\ ReturnedNormally) =>
    LET st == last.result.value[2]
        o == last.outcome
    IN /\ st \in {"reported", "local_only", "offline"}
       /\ st = "reported" <=> (o.kind = "response" /\ o.code = 200)
       /\ st = "local_only" <=> (o.kind = "response" /\ o.code # 200)
       /\ st = "offline" <=> Unreachable(o)

\* A charge the endpoint answered with 201, returned as local_only.
C5_Witness ==
  /\ Charged
  /\ last.outcome.kind = "response"
  /\ last.outcome.code = 201
  /\ last.result.value[2] = "local_only"

\* C6: the session total is never negative.
C6_TotalNeverNegative == session_credits >= 0

\* C7: only a charge or a reset changes the session total; a reset leaves
\* it at exactly 0; a charge, whatever became of its report, changes it by
\* the amount charged and nothing else.
C7_OnlyChargeAndResetTouchTotal ==
  [][ /\ session_credits' # session_credits
           => last'.op \in {"track_credits", "reset_session_credits"}
      /\ (ncalls' # ncalls /\ last'.op = "reset_session_credits") => session_credits' = 0
      /\ (ncalls' # ncalls /\ last'.op = "track_credits")
           => LET d == Denotes(last'.credits_used)
              IN session_credits' = session_credits + (IF d.numeric THEN d.value ELSE 0)
    ]_vars

\* Another operation than a charge or a reset has run on a session that
\* holds credits, and the credits are still there.
C7_Witness ==
  /\ last.op \in {"get_session_credits", "save_to_vault", "load_context",
                  "FalProviderNode.generate", "VertexProviderNode.generate",
                  "FalProvider.generate",
                  "FalProviderNode._estimate_credits", "VertexProviderNode._estimate_credits"}
  /\ session_credits > 0

\* C8: a save that returns an id prefixed local: has left the asset file
\* in the local fallback directory.
C8_LocalIdMeansOnDisk ==
  (Saved /\ ReturnedNormally /\ last.result.value[1] = "local:")
    => last.filename \in disk

\* C9: a save the store answers with 200 and an id returns that id; a save
\* that cannot reach the store and returns, returns local:<suffix> with
\* the asset file in the local fallback directory.
C9_RemoteIdOrLocalFile ==
  Saved =>
    /\ (last.outcome.kind = "response" /\ last.outcome.code = 200 /\ last.outcome.id # NoId)
         => (ReturnedNormally /\ last.result.value = last.outcome.id)
    /\ (Unreachable(last.outcome) /\ ReturnedNormally)
         => (last.result.value = <<"local:">> \o last.asset_id /\ last.filename \in disk)

\* A save that could not reach the store and fell back to the local disk.
C9_Witness ==
  /\ Saved
  /\ Unreachable(last.outcome)
  /\ ReturnedNormally
  /\ last.result.value[1] = "local:"
  /\ last.filename \in disk
  /\ last.filename \notin vault_assets

\* C10: a save whose upload failed and whose local write failed ends in an
\* error; a save that returns an id has the asset in the remote store or
\* on the local disk.
C10_ReturnedIdMeansPersisted ==
  Saved =>
    /\ (~Stored(last.outcome) /\ ~last.writable) => ~ReturnedNormally
    /\ ReturnedNormally => last.filename \in (disk \cup vault_assets)

Fetched == last.op = "load_context" /\ last.token_name # ""
NotFound(outcome) == outcome.kind = "response" /\ outcome.code = 404

\* C11: a fetch the store answers with 404 and a fetch that cannot reach
\* the store (timeout, refused connection) both return, without raising,
\* the same three empty texts: nothing in the result tells them apart.
C11_NotFoundLikeOffline ==
  (Fetched /\ (NotFound(last.outcome) \/ Unreachable(last.outcome)))
    => (ReturnedNormally /\ last.result.value = <<<<>>, <<>>, <<>>>>)

\* A fetch that timed out, made once the request had gone out, and
\* returned what a 404 returns.
C11_Witness ==
  /\ Fetched
  /\ last.outcome.kind = "timeout"
  /\ Len(last.calls) = 1
  /\ last.calls[1].timeout = {5}
  /\ last.result = Returned(<<<<>>, <<>>, <<>>>>)
  /\ load_context_fetch(last.token_type, last.token_name, "http://localhost:8080",
                        last.include_visuals, Missing(404)).result = last.result

FalNodeGenerated == last.op = "FalProviderNode.generate"
VertexGenerated == last.op = "VertexProviderNode.generate"
CloudGenerated == last.op = "FalProvider.generate"

\* The calls that leave the process: every call but aiplatform.init, which
\* only records the project and the location.
Outbound(calls) == {i \in 1..Len(calls) : calls[i].method # "aiplatform.init"}
Rejected == last.result.raised = "ValueError" /\ Outbound(last.calls) = {}

\* C12: a generate call with every credential in place and a model no
\* adapter knows (unknown-model-xyz) ends in the unsupported-model error
\* with no outbound request made, in every adapter.
C12_UnknownModelRejected ==
  /\ (FalNodeGenerated /\ last.api_key # "" /\ last.model = "unknown-model-xyz") => Rejected
  /\ (VertexGenerated /\ last.has_google_cloud /\ last.project_id # ""
        /\ last.model = UnknownModel) => Rejected
  /\ (CloudGenerated /\ last.has_fal_client /\ last.model = "unknown-model-xyz") => Rejected

\* What makes a generation fail, per adapter: the SDK is missing, the
\* remote call fails or answers with an error status, the answer holds no
\* image, or the image cannot be downloaded and decoded.
DownloadFailed(download) == download.kind # "response" \/ download.content # "image"
FalNodeFailed ==
  \/ last.scenario.post.kind # "response"
  \/ last.scenario.post.code \in 400..599
  \/ last.scenario.body # "image with url"
  \/ DownloadFailed(last.scenario.download)
VertexFailed ==
  \/ ~last.has_google_cloud
  \/ (StartsWith(last.model, Chars_imagen) /\ last.scenario # "images")
CloudFailed ==
  \/ ~last.has_fal_client
  \/ last.scenario.submit \in {"error", "neither"}
  \/ DownloadFailed(last.scenario.download)

\* C13: in every adapter, a generate call that fails (SDK missing, remote
\* call failed or answered with an error status, no image in the answer,
\* image download failed) does not return a normal (image, ...) result.
C13_FailuresAreLoud ==
  /\ (FalNodeGenerated /\ last.api_key # "" /\ FalNodeFailed) => ~ReturnedNormally
  /\ (VertexGenerated /\ (last.project_id # "" \/ ~last.has_google_cloud) /\ VertexFailed)
       => ~ReturnedNormally
  /\ (CloudGenerated /\ CloudFailed) => ~ReturnedNormally

\* C14: generate without FAL_API_KEY (Fal node) or without
\* GOOGLE_CLOUD_PROJECT (Vertex node) raises the configuration error
\* (ValueError; ImportError when the Google SDK is missing as well) and
\* has made no call at all by then: no aiplatform.init, no request.
C14_MissingCredentialFailsFirst ==
  /\ (FalNodeGenerated /\ last.api_key = "")
       => (last.result.raised = "ValueError" /\ last.calls = <<>>)
  /\ (VertexGenerated /\ last.project_id = "")
       => /\ last.result.raised = (IF last.has_google_cloud THEN "ValueError" ELSE "ImportError")
          /\ last.calls = <<>>

\* The Fal node called without a key: it raised and sent nothing.
C14_Witness ==
  /\ FalNodeGenerated
  /\ last.api_key = ""
  /\ last.result.raised = "ValueError"
  /\ last.calls = <<>>

FalEstimated == last.op = "FalProviderNode._estimate_credits"
VertexEstimated == last.op = "VertexProviderNode._estimate_credits"
Pixels(d) == d[1] * d[2]
\* Ratios whose denominators divide 1024*1024, compared over the larger
\* denominator.
AtMost(p, q) ==
  LET l == IF p.den > q.den THEN p.den ELSE q.den
  IN p.num * (l \div p.den) <= q.num * (l \div q.den)
Twice(p) == [num |-> 2 * p.num, den |-> p.den]
\* e = base * (width*height) / (1024*1024)
IsScaled(e, base, width, height) ==
  LET g == (1024 * 1024) \div e.den
  IN /\ (1024 * 1024) % e.den = 0
     /\ (width * height) % g = 0
     /\ e.num = base * ((width * height) \div g)

\* C15: for a fixed model, an estimate is no larger than the estimate at
\* any resolution of at least as many pixels, is never negative, and for
\* a model without a cost entry is the adapter's default base cost (0.01
\* in the Fal node, scaled; 0.02 in the Vertex node), returned, not raised.
C15_EstimateMonotone ==
  /\ FalEstimated =>
       LET e == last.result.value
       IN /\ ReturnedNormally
          /\ e.num >= 0 /\ e.den > 0
          /\ \A d \in Dimensions :
               last.width * last.height <= Pixels(d)
                 => AtMost(e, Fal_estimate_credits(last.model, d[1], d[2]))
          /\ last.model = "unknown-model-xyz" => IsScaled(e, 100, last.width, last.height)
  /\ VertexEstimated =>
       LET e == last.result.value
       IN /\ ReturnedNormally
          /\ e >= 0
          /\ \A d \in Dimensions :
               last.width * last.height <= Pixels(d)
                 => e <= Vertex_estimate_credits(last.model, d[1], d[2])
          /\ last.model = UnknownModel => e = 200

\* The Fal estimate of a model without a cost entry at 2048x1024: twice
\* the default base cost.
C15_Witness ==
  /\ FalEstimated
  /\ last.model = "unknown-model-xyz"
  /\ last.width = 2048 /\ last.height = 1024
  /\ last.result.value.num = 200 * last.result.value.den

\* C16 as stated: in both adapters the estimate is the model's base cost
\* times (width*height)/(1024*1024), and twice the pixels give twice the
\* estimate.
C16_EstimateScales ==
  /\ FalEstimated =>
       LET e == last.result.value
       IN /\ IsScaled(e, Fal_base_cost(last.model), last.width, last.height)
          /\ \A d \in Dimensions :
               Pixels(d) = 2 * (last.width * last.height)
                 => LET o == Fal_estimate_credits(last.model, d[1], d[2])
                    IN AtMost(o, Twice(e)) /\ AtMost(Twice(e), o)
  /\ VertexEstimated =>
       LET e == last.result.value
           base == Vertex_estimate_credits(last.model, 1024, 1024)
       IN /\ e * 1024 = base * ((last.width * last.height) \div 1024)
          /\ (last.width * last.height) % 1024 = 0
          /\ \A d \in Dimensions :
               Pixels(d) = 2 * (last.width * last.height)
                 => Vertex_estimate_credits(last.model, d[1], d[2]) = 2 * e

\* C16 amended: the Fal estimate is the model's base cost times
\* (width*height)/(1024*1024), and twice the pixels give twice the
\* estimate; the Vertex estimate is the model's base cost at every
\* resolution.
C16_FalScalesVertexFlat ==
  /\ FalEstimated =>
       LET e == last.result.value
       IN /\ IsScaled(e, Fal_base_cost(last.model), last.width, last.height)
          /\ \A d \in Dimensions :
               Pixels(d) = 2 * (last.width * last.height)
                 => LET o == Fal_estimate_credits(last.model, d[1], d[2])
                    IN AtMost(o, Twice(e)) /\ AtMost(Twice(e), o)
  /\ VertexEstimated =>
       LET e == last.result.value
       IN /\ e = (CASE last.model = Imagen4 -> 400 [] last.model = Imagen4Fast -> 200
                    [] last.model = Veo31 -> 5000 [] OTHER -> 200)
          /\ \A d \in Dimensions : Vertex_estimate_credits(last.model, d[1], d[2]) = e

\* The Vertex estimate of imagen-4 at 2048x1024, twice the reference
\* resolution: the base cost, 0.04.
C16_Witness ==
  /\ VertexEstimated
  /\ last.model = Imagen4
  /\ last.width = 2048 /\ last.height = 1024
  /\ last.result.value = 400

\* C19: every outbound HTTP call of every operation carries a timeout,
\* and no operation is held forever by a service that never answers.
C19_EveryCallTimesOut ==
  last.op # "none" =>
    /\ \A i \in 1..Len(last.calls) :
         "timeout" \in DOMAIN last.calls[i] => last.calls[i].timeout # {}
    /\ last.result # Hung

\* C20: with a key, the Fal node sends a mapped model to its own endpoint
\* and any other model to fal-ai/flux/schnell; a successful call for such
\* a model reports the default base cost 0.01 scaled by the resolution.
C20_FalDefaultEndpoint ==
  (FalNodeGenerated /\ last.api_key # "") =>
    LET endpoint == last.calls[1].url[3]
        m == last.model
    IN /\ Len(last.calls) >= 1
       /\ last.calls[1].url[1] = "https://fal.run"
       /\ m = "flux-2-pro" => endpoint = "fal-ai/flux-2/pro"
       /\ m = "flux-1.1-pro" => endpoint = "fal-ai/flux-pro/v1.1"
       /\ m = "flux-schnell" => endpoint = "fal-ai/flux/schnell"
       /\ m = "kling-v2.5-turbo" => endpoint = "fal-ai/kling-video/v2.5/turbo/image-to-video"
       /\ m = "seedream-4.5" => endpoint = "fal-ai/seedream/v4.5"
       /\ m = "unknown-model-xyz" =>
            /\ endpoint = "fal-ai/flux/schnell"
            /\ (ReturnedNormally /\ last.width = 1024 /\ last.height = 1024)
                 => last.result.value[2] = <<"0", ".", "0", "1", "0", "0">>
            /\ (ReturnedNormally /\ last.width = 300 /\ last.height = 300)
                 => last.result.value[2] = <<"0", ".", "0", "0", "0", "9">>

\* A successful call of the Fal node for a model outside its table.
C20_Witness ==
  /\ FalNodeGenerated
  /\ last.model = "unknown-model-xyz"
  /\ ReturnedNormally
  /\ last.calls[1].url[3] = "fal-ai/flux/schnell"
  /\ last.result.value[2] = <<"0", ".", "0", "1", "0", "0">>

Found200 == Fetched /\ last.outcome.kind = "response" /\ last.outcome.code = 200

\* The fragments of each token type after the name, in order: the
\* attribute, the words before its value and the words after it.
Fragment(key, before, after) == [key |-> key, before |-> before, after |-> after]
Fragments(token_type) ==
  CASE token_type = "character" ->
         <<Fragment("age", <<>>, <<" years old">>), Fragment("appearance", <<>>, <<>>),
           Fragment("clothing", <<"wearing ">>, <<>>), Fragment("description", <<>>, <<>>)>>
    [] token_type = "location" ->
         <<Fragment("setting", <<>>, <<>>), Fragment("time_of_day", <<"during ">>, <<>>),
           Fragment("weather", <<>>, <<" weather">>), Fragment("description", <<>>, <<>>)>>
    [] token_type = "prop" ->
         <<Fragment("color", <<>>, <<>>), Fragment("material", <<"made of ">>, <<>>),
           Fragment("description", <<>>, <<>>)>>

\* An attribute that is there and is not empty.
Present(token, key) == key \in DOMAIN token /\ Truthy(token[key])

RECURSIVE Rendered(_, _)
Rendered(fragments, token) ==
  IF fragments = <<>> THEN <<>>
  ELSE LET f == Head(fragments)
       IN (IF Present(token, f.key)
             THEN <<", ">> \o f.before \o Shown(token[f.key]) \o f.after
             ELSE <<>>)
            \o Rendered(Tail(fragments), token)

\* C17: for a character, a location or a prop, the prompt context is the
\* name followed by the fragments of the type, in their order, each there
\* exactly when its attribute is present and non-empty, joined by ", ";
\* {name: Ana, age: 30, appearance: tall, clothing: red coat} as a
\* character gives "Ana, 30 years old, tall, wearing red coat".
C17_FragmentsInOrder ==
  (Found200 /\ last.token_type \in {"character", "location", "prop"}) =>
    LET token == last.outcome.token
    IN /\ ReturnedNormally
       /\ last.result.value[1] = Shown(token.name) \o Rendered(Fragments(last.token_type), token)
       /\ (last.token_type = "character" /\ token.name = JStr("Ana") /\ "age" \in DOMAIN token)
            => last.result.value[1] =
                 <<"Ana", ", ", "3", "0", " years old", ", ", "tall", ", ", "wearing ", "red coat">>

\* The character Ana, fetched and rendered.
C17_Witness ==
  /\ Found200
  /\ last.token_type = "character"
  /\ "clothing" \in DOMAIN last.outcome.token
  /\ last.result.value[1] =
       <<"Ana", ", ", "3", "0", " years old", ", ", "tall", ", ", "wearing ", "red coat">>

\* C18: for a token fetched with success, the style prompt returned is
\* the token's style_prompt, empty when it has none; the reference path
\* is the path of the first visual when visuals are asked for and the
\* token has one, and empty when they are not asked for, when the token
\* has no visual, and when the first visual has no path.
C18_StyleAndReference ==
  (Found200 /\ ReturnedNormally) =>
    LET token == last.outcome.token
        has_visual == "visuals" \in DOMAIN token /\ Len(token.visuals.items) >= 1
        first == token.visuals.items[1]
    IN /\ last.result.value[2] =
            (IF "style_prompt" \in DOMAIN token /\ token.style_prompt.s # ""
               THEN <<token.style_prompt.s>> ELSE <<>>)
       /\ last.result.value[3] =
            (IF last.include_visuals /\ has_visual /\ "path" \in DOMAIN first /\ first.path.s # ""
               THEN <<first.path.s>> ELSE <<>>)
       /\ (token.name = JStr("Ana") /\ "age" \in DOMAIN token /\ last.include_visuals)
            => (last.result.value[2] = <<"film noir">>
                /\ last.result.value[3] = <<"/vault/ana.png">>)

\* A token with two visuals, fetched with visuals asked for: the first
\* one's path came back.
C18_Witness ==
  /\ Found200
  /\ last.include_visuals
  /\ "visuals" \in DOMAIN last.outcome.token
  /\ Len(last.outcome.token.visuals.items) = 2
  /\ last.result.value[3] = <<"/vault/ana.png">>
  /\ last.result.value[2] = <<"film noir">>

Answered200(outcome) == outcome.kind = "response" /\ outcome.code = 200

\* C21: the id a save returns starts with local: exactly when the store
\* did not answer 200 (another status, a timeout, a refused connection);
\* when it answered 200 the id is the id of the answer, and the locally
\* generated suffix, without prefix, when the answer holds no id.
C21_LocalPrefixIffNot200 ==
  (Saved /\ ReturnedNormally) =>
    LET id == last.result.value
        o == last.outcome
    IN /\ id # <<>>
       /\ id[1] = "local:" <=> ~Answered200(o)
       /\ ~Answered200(o) => id = <<"local:">> \o last.asset_id
       /\ (Answered200(o) /\ o.id # <<>>) => id = o.id
       /\ (Answered200(o) /\ o.id = <<>>) => id = last.asset_id

\* A save the store answered with 200 and no id: the bare suffix came
\* back, and nothing was written locally.
C21_Witness ==
  /\ Saved
  /\ Answered200(last.outcome)
  /\ last.outcome.id = <<>>
  /\ last.result = Returned(<<"1f0e9a3c">>)
  /\ last.filename \notin disk

\* C22: load_context with an empty token name returns three empty texts
\* and sends no request, whatever the type and the include_visuals flag.
C22_EmptyNameNoRequest ==
  (last.op = "load_context" /\ last.token_name = "")
    => (last.result = Returned(<<<<>>, <<>>, <<>>>>) /\ last.calls = <<>>)

\* A character asked for with no name and with visuals.
C22_Witness ==
  /\ last.op = "load_context"
  /\ last.token_name = ""
  /\ last.token_type = "character"
  /\ last.include_visuals
  /\ last.calls = <<>>
  /\ last.result.raised = "none"

====
